---- MODULE Spec2Model ----
(***************************************************************************)
(* Model of mapper: a sharded in-memory key/value store with per-record    *)
(* TTL expirer tasks (storage.rs, wrapped_record.rs, record.rs) and a       *)
(* periodic snapshot / startup recovery subsystem (backup_handler.rs).      *)
(*                                                                         *)
(* Option<T> is modelled as a sequence of length at most one:               *)
(* None == << >>, Some(x) == <<x>>.                                          *)
(* Time is counted in ticks; TicksPerSec ticks make one second, so that     *)
(* Duration::as_secs truncates.                                             *)
(***************************************************************************)
EXTENDS Integers, Sequences, FiniteSets, TLC

\* ------------------------------------------------------------------ bounds
MaxTime == 2
MaxExpirers == 2
MaxRestarts == 1
MaxPasses == 1
TicksPerSec == 2

\* ------------------------------------------------------- program constants
NumShards == 4

Keys == {"a", "b"}
\* Payloads are byte strings (Record.data: Vec<u8>): the text "v", and the
\* single byte 0xFF, which is no UTF-8 text
PlainText == <<118>>
Binary == <<255>>
Datas == {PlainText, Binary}
TTLs == {1, 2}
\* --backup-interval, in seconds, of the process whose backup timing is checked
backup_interval == 1

ShardIds == 0 .. (NumShards - 1)

None == << >>
Some(x) == <<x>>
IsSome(o) == Len(o) = 1
Unwrap(o) == o[1]

\* Storage::hash_key: a deterministic map from key to shard index
\* (SipHash of the key modulo the number of shards), given here as a table
\* over the modelled keys.
hash_key(key) == IF key = "a" THEN 1 ELSE 2

VARIABLES
    shards,      \* Storage.0: shard index -> map key -> WrappedRecord
    expirers,    \* the spawned ttl_check tasks of this process, by handle id
    now,         \* the monotonic clock, in ticks
    flushPos,    \* position of the running flush_all loop (NumShards = idle)
    phase,       \* startup recovery ("unzip", then "load") or "serving"
    fsDir,       \* the per-shard backup directory on disk
    fsZip,       \* the archive file on disk
    snap,        \* the backup task: its position in the pass
    passes,      \* backup passes started so far
    restarts,    \* process restarts so far
    reply,       \* the result of the last completed client operation
    lastSet,     \* per key, the data of the last set not yet undone
    snapped,     \* per shard, the map and the time the backup task last
                 \* serialized (what the shard file stands for)
    capacity,    \* per shard, HashMap::capacity() of its map
    flushMark,   \* per shard, the number of expirers that had been spawned
                 \* when flush_all last cleared the shard
    inflight     \* the storage call that is between two of its steps, with
                 \* the WrappedRecord it holds (None: no call is under way)

vars == <<shards, expirers, now, flushPos, phase, fsDir, fsZip, snap,
          passes, restarts, reply, lastSet, snapped, capacity, flushMark,
          inflight>>


\* ------------------------------------------------------------- record.rs
\* TTLPolicy::new: the duration and Instant::now()
TTLPolicy_new(ttl, t) == [ttl |-> ttl, last_policy_update |-> t]

\* Record::new
Record_new(data, ttl, t) ==
    [data |-> data,
     ttl_policy |-> IF IsSome(ttl) THEN Some(TTLPolicy_new(Unwrap(ttl), t))
                    ELSE None]

\* Record::update_ttl_policy
Record_update_ttl_policy(record, ttl, t) ==
    [record EXCEPT !.ttl_policy = Some(TTLPolicy_new(ttl, t))]

\* Record::remove_ttl_policy
Record_remove_ttl_policy(record) == [record EXCEPT !.ttl_policy = None]

\* ----------------------------------------------------- wrapped_record.rs
\* The handle that create_ttl_check_channel returns: the sender of a fresh
\* channel, identified by the position of the task it spawns.
NewHandle == Len(expirers) + 1

\* create_ttl_check_channel: spawn ttl_check(db, shard_index, key, tc_r, ttl).
\* The task starts in its race; Timer::after(ttl) is due at now + ttl.
\* "by" records which call spawned the task.
create_ttl_check_channel(shard_index, key, ttl, by) ==
    Append(expirers, [key |-> key, shard_index |-> shard_index,
                      deadline |-> now + ttl, pc |-> "race",
                      result |-> "none", by |-> by])

\* WrappedRecord::new: the handle is Some exactly when the record has a policy
WrappedRecord_new(record) ==
    [record |-> record,
     detatched_task_ch |-> IF IsSome(record.ttl_policy) THEN Some(NewHandle)
                           ELSE None]

\* An update_ttl_policy whose Some branch leaves the old handle in place
WrappedRecord_update_ttl_policy_keep_handle(wrecord, maybe_new_ttl) ==
    IF IsSome(maybe_new_ttl)
    THEN [record |-> Record_update_ttl_policy(wrecord.record,
                                              Unwrap(maybe_new_ttl), now),
          detatched_task_ch |-> wrecord.detatched_task_ch]
    ELSE [record |-> Record_remove_ttl_policy(wrecord.record),
          detatched_task_ch |-> wrecord.detatched_task_ch]

\* WrappedRecord::update_ttl_policy.  Sender::send returns a future that is
\* dropped without being polled (let _ = ch.send(..)), so no Cancelled
\* message enters the channel.  In the Some branch the old sender is dropped
\* when the field is overwritten; in the None branch the field keeps the old
\* sender.
WrappedRecord_update_ttl_policy(wrecord, maybe_new_ttl) ==
    IF IsSome(maybe_new_ttl)
    THEN [record |-> Record_update_ttl_policy(wrecord.record,
                                              Unwrap(maybe_new_ttl), now),
          detatched_task_ch |-> Some(NewHandle)]
    ELSE [record |-> Record_remove_ttl_policy(wrecord.record),
          detatched_task_ch |-> wrecord.detatched_task_ch]

\* The sender of expirer id is alive: some stored WrappedRecord holds it,
\* or the WrappedRecord in the hands of the storage call under way does.
\* A WrappedRecord that is dropped drops its sender.
SenderAlive(id) ==
    \/ \E s \in ShardIds : \E k \in DOMAIN shards[s] :
          shards[s][k].detatched_task_ch = Some(id)
    \/ /\ IsSome(inflight)
       /\ Unwrap(inflight).op # "await"
       /\ Unwrap(inflight).wrecord.detatched_task_ch = Some(id)

\* What detatched_task_ch.recv() of expirer id gives when it is ready: no
\* message is ever in the channel (every send future is dropped unpolled),
\* so recv() is ready only when every sender is dropped, with Closed
recv(id) == IF SenderAlive(id) THEN None ELSE Some("Closed")

\* A ttl_check task that has returned: its locals are gone, only the branch
\* it took is kept
Terminated(result) ==
    [key |-> "", shard_index |-> 0, deadline |-> 0, pc |-> "done",
     result |-> result, by |-> ""]

\* The re-check without its test of the TTL policy
ttl_check_removes_any(table, key) == key \in DOMAIN table

\* The re-check with its test of the TTL policy inverted
ttl_check_removes_inverted(table, key) ==
    /\ key \in DOMAIN table
    /\ ~IsSome(table[key].record.ttl_policy)

\* A re-check that never finds anything to remove
ttl_check_removes_never(table, key) == FALSE

\* ttl_check, Timout branch: the re-check made under the shard write lock
ttl_check_removes(table, key) ==
    /\ key \in DOMAIN table
    /\ IsSome(table[key].record.ttl_policy)

\* ------------------------------------------------------------ map helpers
\* An insert that keeps the value of a key that is already present
MapInsert_keep(table, key, value) ==
    [k \in (DOMAIN table) \cup {key} |->
        IF k \in DOMAIN table THEN table[k] ELSE value]

\* HashMap::insert
MapInsert(table, key, value) ==
    [k \in (DOMAIN table) \cup {key} |-> IF k = key THEN value ELSE table[k]]

\* A remove that leaves the map as it is
MapRemove_keep(table, key) == table

\* HashMap::remove
MapRemove(table, key) == [k \in (DOMAIN table) \ {key} |-> table[k]]

EmptyMap == [k \in {} |-> None]

\* HashMap::with_capacity(n): no allocation for n = 0, otherwise the table
\* of 4, 8 or 16 buckets that holds n entries (3, 7 or 14 of them)
with_capacity(n) ==
    IF n = 0 THEN 0 ELSE IF n < 4 THEN 3 ELSE IF n < 8 THEN 7 ELSE 14

\* HashMap::capacity() after insert(key, _): the table grows when a new key
\* finds it full; remove() and clear() keep the allocation
capacity_after_insert(table, key, cap) ==
    IF key \in DOMAIN table \/ Cardinality(DOMAIN table) < cap THEN cap
    ELSE with_capacity(cap + 1)

NoReply == [op |-> "none", key |-> "", res |-> "none", body |-> None]

\* --------------------------------------------------------------- storage.rs
\* A lookup that reads the shard next to that of the key
get_record_next_shard(store, key) ==
    LET table == store[(hash_key(key) + 1) % NumShards] IN
    IF key \in DOMAIN table
    THEN [res |-> "Ok", body |-> Some(table[key].record)]
    ELSE [res |-> "RecordNotFound", body |-> None]

\* Storage::get_record, as a function of the store
get_record(store, key) ==
    LET table == store[hash_key(key)] IN
    IF key \in DOMAIN table
    THEN [res |-> "Ok", body |-> Some(table[key].record)]
    ELSE [res |-> "RecordNotFound", body |-> None]


Serving == phase = "serving"

\* A flush_all that keeps the guard of every shard it has cleared until its
\* loop is over
WriteLocked_flush_keeps(shard_index) ==
    \/ /\ IsSome(inflight)
       /\ Unwrap(inflight).op \in {"set", "update_ttl"}
       /\ hash_key(Unwrap(inflight).key) = shard_index
    \/ /\ flushPos < NumShards
       /\ shard_index < flushPos

\* The storage call under way holds the write lock of the shard: set_record
\* and update_ttl keep their guard until they return
WriteLocked(shard_index) ==
    /\ IsSome(inflight)
    /\ Unwrap(inflight).op \in {"set", "update_ttl"}
    /\ hash_key(Unwrap(inflight).key) = shard_index

\* A lock acquisition that does not wait for the holder
write_lock_free_always(shard_index) == TRUE

\* shard.write().await and shard.read().await return once no writer holds
\* the lock of the shard
write_lock_free(shard_index) == ~WriteLocked(shard_index)

\* A set_record that inserts into the shard next to that of the key
set_record_misplaced(key, data, ttl) ==
    LET shard_index == (hash_key(key) + 1) % NumShards
        client_record == Record_new(data, ttl, now) IN
    /\ Serving
    /\ write_lock_free(shard_index)
    /\ IsSome(ttl) => /\ Len(expirers) < MaxExpirers
                      /\ now + Unwrap(ttl) <= MaxTime
    /\ shards' = [shards EXCEPT ![shard_index] =
                     MapInsert(@, key, WrappedRecord_new(client_record))]
    /\ expirers' = IF IsSome(ttl)
                   THEN create_ttl_check_channel(shard_index, key,
                                                 Unwrap(ttl), "set_record")
                   ELSE expirers
    /\ reply' = [op |-> "set", key |-> key, res |-> "Ok", body |-> None]
    /\ capacity' = [capacity EXCEPT ![shard_index] =
                       capacity_after_insert(shards[shard_index], key, @)]
    /\ lastSet' = [lastSet EXCEPT ![key] = Some(data)]
    /\ UNCHANGED <<now, flushPos, phase, fsDir, fsZip, snap, passes, restarts,
                   snapped, flushMark, inflight>>

\* Storage::set_record, called by handle_query for SET (ttl = None) and
\* SETEX (ttl = Some(d)).  Under the shard write lock: build the
\* WrappedRecord (spawning its expirer when it has a policy), insert it, and
\* drop the previous WrappedRecord with its sender.
set_record(key, data, ttl) ==
    LET shard_index == hash_key(key)
        client_record == Record_new(data, ttl, now) IN
    /\ Serving
    /\ write_lock_free(shard_index)
    /\ IsSome(ttl) => /\ Len(expirers) < MaxExpirers
                      /\ now + Unwrap(ttl) <= MaxTime
    /\ shards' = [shards EXCEPT ![shard_index] =
                     MapInsert(@, key, WrappedRecord_new(client_record))]
    /\ expirers' = IF IsSome(ttl)
                   THEN create_ttl_check_channel(shard_index, key,
                                                 Unwrap(ttl), "set_record")
                   ELSE expirers
    /\ reply' = [op |-> "set", key |-> key, res |-> "Ok", body |-> None]
    /\ capacity' = [capacity EXCEPT ![shard_index] =
                       capacity_after_insert(shards[shard_index], key, @)]
    /\ lastSet' = [lastSet EXCEPT ![key] = Some(data)]
    /\ UNCHANGED <<now, flushPos, phase, fsDir, fsZip, snap, passes, restarts,
                   snapped, flushMark, inflight>>

\* Storage::remove_record (DEL)
remove_record(key) ==
    /\ Serving
    /\ write_lock_free(hash_key(key))
    /\ shards' = [shards EXCEPT ![hash_key(key)] = MapRemove(@, key)]
    /\ reply' = [op |-> "del", key |-> key, res |-> "Ok", body |-> None]
    /\ lastSet' = [lastSet EXCEPT ![key] = None]
    /\ UNCHANGED <<expirers, now, flushPos, phase, fsDir, fsZip, snap,
                   passes, restarts, snapped,
                   capacity, flushMark, inflight>>

\* Storage::update_ttl on a present key: EXPIRE (Some(d)) and PERSIST (None)
update_ttl(key, new_ttl) ==
    LET hash_index == hash_key(key) IN
    /\ Serving
    /\ write_lock_free(hash_index)
    /\ key \in DOMAIN shards[hash_index]
    /\ IsSome(new_ttl) => /\ Len(expirers) < MaxExpirers
                          /\ now + Unwrap(new_ttl) <= MaxTime
    /\ shards' = [shards EXCEPT ![hash_index][key] =
                     WrappedRecord_update_ttl_policy(@, new_ttl)]
    /\ expirers' = IF IsSome(new_ttl)
                   THEN create_ttl_check_channel(hash_index, key,
                                                 Unwrap(new_ttl), "update_ttl")
                   ELSE expirers
    /\ reply' = [op |-> "update_ttl", key |-> key, res |-> "Ok", body |-> None]
    /\ UNCHANGED <<now, flushPos, phase, fsDir, fsZip, snap, passes, restarts,
                   lastSet, snapped,
                   capacity, flushMark, inflight>>

\* An update_ttl that stores an empty record under an absent key
update_ttl_not_found_upsert(key) ==
    /\ Serving
    /\ write_lock_free(hash_key(key))
    /\ key \notin DOMAIN shards[hash_key(key)]
    /\ shards' = [shards EXCEPT ![hash_key(key)] =
                     MapInsert(@, key,
                               WrappedRecord_new(Record_new(<< >>, None, now)))]
    /\ reply' = [op |-> "update_ttl", key |-> key, res |-> "RecordNotFound",
                 body |-> None]
    /\ UNCHANGED <<expirers, now, flushPos, phase, fsDir, fsZip, snap,
                   passes, restarts, lastSet, snapped, capacity, flushMark, inflight>>

\* Storage::update_ttl on an absent key, for EXPIRE (Some(d)) and PERSIST
\* (None) alike: the lookup fails before new_ttl is looked at
update_ttl_not_found(key) ==
    /\ Serving
    /\ write_lock_free(hash_key(key))
    /\ key \notin DOMAIN shards[hash_key(key)]
    /\ reply' = [op |-> "update_ttl", key |-> key, res |-> "RecordNotFound",
                 body |-> None]
    /\ UNCHANGED <<shards, expirers, now, flushPos, phase, fsDir, fsZip, snap,
                   passes, restarts, lastSet, snapped,
                   capacity, flushMark, inflight>>

\* The number of bytes of the UTF-8 sequence that starts at position i of
\* v, 0 when no well-formed sequence starts there
utf8_char_width(v, i) ==
    LET first == v[i]
        In(j, lo, hi) == j <= Len(v) /\ v[j] >= lo /\ v[j] <= hi
        Cont(j) == In(j, 128, 191) IN
    IF first < 128 THEN 1
    ELSE IF first >= 194 /\ first <= 223
         THEN (IF Cont(i + 1) THEN 2 ELSE 0)
    ELSE IF first = 224
         THEN (IF In(i + 1, 160, 191) /\ Cont(i + 2) THEN 3 ELSE 0)
    ELSE IF (first >= 225 /\ first <= 236) \/ first \in {238, 239}
         THEN (IF Cont(i + 1) /\ Cont(i + 2) THEN 3 ELSE 0)
    ELSE IF first = 237
         THEN (IF In(i + 1, 128, 159) /\ Cont(i + 2) THEN 3 ELSE 0)
    ELSE IF first = 240
         THEN (IF In(i + 1, 144, 191) /\ Cont(i + 2) /\ Cont(i + 3)
               THEN 4 ELSE 0)
    ELSE IF first >= 241 /\ first <= 243
         THEN (IF Cont(i + 1) /\ Cont(i + 2) /\ Cont(i + 3) THEN 4 ELSE 0)
    ELSE IF first = 244
         THEN (IF In(i + 1, 128, 143) /\ Cont(i + 2) /\ Cont(i + 3)
               THEN 4 ELSE 0)
    ELSE 0

RECURSIVE utf8_valid_from(_, _)
utf8_valid_from(v, i) ==
    IF i > Len(v) THEN TRUE
    ELSE LET w == utf8_char_width(v, i) IN
         w > 0 /\ utf8_valid_from(v, i + w)

\* String::from_utf8(rec.data): the bytes as a String when they are
\* well-formed UTF-8, an error otherwise
from_utf8(data) == IF utf8_valid_from(data, 1) THEN Some(data) ELSE None

\* handle_query for GET: Storage::get_record, then String::from_utf8 of the
\* data of the record
Get(key) ==
    LET r == get_record(shards, key)
        text == IF IsSome(r.body) THEN from_utf8(Unwrap(r.body).data)
                ELSE None IN
    /\ Serving
    /\ write_lock_free(hash_key(key))
    /\ reply' = [op |-> "get", key |-> key,
                 res |-> IF r.res = "Ok" /\ ~IsSome(text)
                         THEN "UnparsableBytes" ELSE r.res,
                 body |-> text]
    /\ UNCHANGED <<shards, expirers, now, flushPos, phase, fsDir, fsZip, snap,
                   passes, restarts, lastSet, snapped,
                   capacity, flushMark, inflight>>

\* A storage call that is suspended in shard.write().await, the one await
\* of set_record, update_ttl and remove_record: nothing of it has run but
\* the lookup of the shard
Awaiting(op, key) == [op |-> "await", key |-> key, call |-> op]

\* The call starts, or is resumed from its wait for the lock
call_begins(op, key) ==
    inflight = None \/ inflight = Some(Awaiting(op, key))

\* The first poll of shard.write() finds the lock taken by another thread's
\* guard and the call is suspended
storage_call_await(op, key) ==
    /\ Serving
    /\ inflight = None
    /\ inflight' = Some(Awaiting(op, key))
    /\ UNCHANGED <<shards, expirers, now, flushPos, phase, fsDir, fsZip, snap,
                   passes, restarts, reply, lastSet, snapped, capacity,
                   flushMark>>

\* A caller that could drop the call between any two of its statements
abandon_anywhere ==
    /\ IsSome(inflight)
    /\ inflight' = None
    /\ UNCHANGED <<shards, expirers, now, flushPos, phase, fsDir, fsZip, snap,
                   passes, restarts, reply, lastSet, snapped, capacity,
                   flushMark>>

\* The caller drops the future of a suspended call (the connection task is
\* cancelled); a future can be dropped only where it is suspended
abandon ==
    /\ IsSome(inflight)
    /\ Unwrap(inflight).op = "await"
    /\ inflight' = None
    /\ UNCHANGED <<shards, expirers, now, flushPos, phase, fsDir, fsZip, snap,
                   passes, restarts, reply, lastSet, snapped, capacity,
                   flushMark>>

\* Storage::set_record as far as the evaluation of WrappedRecord::new: the
\* shard write lock is taken and the expirer of the new record is spawned;
\* the insert is still to come
set_record_lock(key, data, ttl) ==
    LET shard_index == hash_key(key)
        client_record == Record_new(data, ttl, now) IN
    /\ Serving
    /\ call_begins("set", key)
    /\ write_lock_free(shard_index)
    /\ IsSome(ttl) => /\ Len(expirers) < MaxExpirers
                      /\ now + Unwrap(ttl) <= MaxTime
    /\ expirers' = IF IsSome(ttl)
                   THEN create_ttl_check_channel(shard_index, key,
                                                 Unwrap(ttl), "set_record")
                   ELSE expirers
    /\ inflight' = Some([op |-> "set", key |-> key,
                         wrecord |-> WrappedRecord_new(client_record)])
    /\ UNCHANGED <<shards, now, flushPos, phase, fsDir, fsZip, snap, passes,
                   restarts, reply, lastSet, snapped, capacity, flushMark>>

\* Storage::set_record from the insert on: the WrappedRecord is inserted,
\* the previous one is dropped with its sender, the lock is released
set_record_insert ==
    LET call == Unwrap(inflight)
        shard_index == hash_key(call.key) IN
    /\ IsSome(inflight)
    /\ call.op = "set"
    /\ shards' = [shards EXCEPT ![shard_index] =
                     MapInsert(@, call.key, call.wrecord)]
    /\ reply' = [op |-> "set", key |-> call.key, res |-> "Ok", body |-> None]
    /\ capacity' = [capacity EXCEPT ![shard_index] =
                       capacity_after_insert(shards[shard_index], call.key, @)]
    /\ lastSet' = [lastSet EXCEPT ![call.key] = Some(call.wrecord.record.data)]
    /\ inflight' = None
    /\ UNCHANGED <<expirers, now, flushPos, phase, fsDir, fsZip, snap, passes,
                   restarts, snapped, flushMark>>

\* Storage::update_ttl with Some(d) as far as create_ttl_check_channel in
\* WrappedRecord::update_ttl_policy: the write lock is taken and the new
\* expirer is spawned; the stored WrappedRecord still has its old handle
update_ttl_lock(key, new_ttl) ==
    LET hash_index == hash_key(key) IN
    /\ Serving
    /\ call_begins("update_ttl", key)
    /\ write_lock_free(hash_index)
    /\ key \in DOMAIN shards[hash_index]
    /\ IsSome(new_ttl)
    /\ Len(expirers) < MaxExpirers
    /\ now + Unwrap(new_ttl) <= MaxTime
    /\ expirers' = create_ttl_check_channel(hash_index, key, Unwrap(new_ttl),
                                            "update_ttl")
    /\ inflight' = Some([op |-> "update_ttl", key |-> key,
                         wrecord |-> WrappedRecord_update_ttl_policy(
                                         shards[hash_index][key], new_ttl)])
    /\ UNCHANGED <<shards, now, flushPos, phase, fsDir, fsZip, snap, passes,
                   restarts, reply, lastSet, snapped, capacity, flushMark>>

\* Storage::update_ttl from the assignment of the new handle on: the old
\* sender is dropped, the lock is released
update_ttl_store ==
    LET call == Unwrap(inflight) IN
    /\ IsSome(inflight)
    /\ call.op = "update_ttl"
    /\ shards' = [shards EXCEPT ![hash_key(call.key)][call.key] = call.wrecord]
    /\ reply' = [op |-> "update_ttl", key |-> call.key, res |-> "Ok",
                 body |-> None]
    /\ inflight' = None
    /\ UNCHANGED <<expirers, now, flushPos, phase, fsDir, fsZip, snap, passes,
                   restarts, lastSet, snapped, capacity, flushMark>>

\* Storage::remove_record, its first statement: the guard of
\* shard.write().await is a temporary of the statement that removes the
\* entry, so the lock is released at the end of that statement, with the
\* removed WrappedRecord in maybe_prev
remove_record_unlock(key) ==
    LET shard_index == hash_key(key) IN
    /\ Serving
    /\ call_begins("del", key)
    /\ write_lock_free(shard_index)
    /\ key \in DOMAIN shards[shard_index]
    /\ shards' = [shards EXCEPT ![shard_index] = MapRemove(@, key)]
    /\ lastSet' = [lastSet EXCEPT ![key] = None]
    /\ inflight' = Some([op |-> "del", key |-> key,
                         wrecord |-> shards[shard_index][key]])
    /\ UNCHANGED <<expirers, now, flushPos, phase, fsDir, fsZip, snap, passes,
                   restarts, reply, snapped, capacity, flushMark>>

\* Storage::remove_record, the rest: maybe_prev is dropped with its sender
remove_record_drop ==
    /\ IsSome(inflight)
    /\ Unwrap(inflight).op = "del"
    /\ reply' = [op |-> "del", key |-> Unwrap(inflight).key, res |-> "Ok",
                 body |-> None]
    /\ inflight' = None
    /\ UNCHANGED <<shards, expirers, now, flushPos, phase, fsDir, fsZip, snap,
                   passes, restarts, lastSet, snapped, capacity, flushMark>>

\* usize::to_string: the decimal digits, as bytes
RECURSIVE to_string(_)
to_string(n) ==
    IF n < 10 THEN <<48 + n>>
    ELSE to_string(n \div 10) \o <<48 + (n % 10)>>

\* The sum of f[0] .. f[i - 1]
RECURSIVE SumBelow(_, _)
SumBelow(f, i) == IF i = 0 THEN 0 ELSE SumBelow(f, i - 1) + f[i - 1]

\* Storage::db_size: the sum of the capacity() of the maps of all shards
db_size(caps) == SumBelow(caps, NumShards)

\* handle_query for DBSIZE: the loop of db_size takes one read lock after
\* the other and changes nothing; it is taken here at one instant
DbSize ==
    /\ Serving
    /\ \A s \in ShardIds : write_lock_free(s)
    /\ reply' = [op |-> "db_size", key |-> "", res |-> "Ok",
                 body |-> Some(to_string(db_size(capacity)))]
    /\ UNCHANGED <<shards, expirers, now, flushPos, phase, fsDir, fsZip, snap,
                   passes, restarts, lastSet, snapped, capacity, flushMark, inflight>>

\* Storage::flush_all: the loop takes one shard write lock at a time
flush_all_begin ==
    /\ Serving
    /\ flushPos = NumShards
    /\ flushPos' = 0
    /\ UNCHANGED <<shards, expirers, now, phase, fsDir, fsZip, snap, passes,
                   restarts, reply, lastSet, snapped,
                   capacity, flushMark, inflight>>

\* A flush_all whose loop passes over shard 2 without clearing it
flush_all_step_skips ==
    /\ Serving
    /\ write_lock_free(flushPos)
    /\ flushPos < NumShards
    /\ shards' = IF flushPos = 2 THEN shards
                 ELSE [shards EXCEPT ![flushPos] = EmptyMap]
    /\ flushPos' = flushPos + 1
    /\ lastSet' = [k \in Keys |-> IF hash_key(k) = flushPos THEN None
                                  ELSE lastSet[k]]
    /\ reply' = IF flushPos + 1 = NumShards
                THEN [op |-> "flush_all", key |-> "", res |-> "Ok",
                      body |-> None]
                ELSE reply
    /\ flushMark' = [flushMark EXCEPT ![flushPos] = Len(expirers)]
    /\ UNCHANGED <<expirers, now, phase, fsDir, fsZip, snap, passes, restarts,
                   snapped, capacity, inflight>>

flush_all_step ==
    /\ Serving
    /\ write_lock_free(flushPos)
    /\ flushPos < NumShards
    /\ shards' = [shards EXCEPT ![flushPos] = EmptyMap]
    /\ flushPos' = flushPos + 1
    /\ lastSet' = [k \in Keys |-> IF hash_key(k) = flushPos THEN None
                                  ELSE lastSet[k]]
    /\ reply' = IF flushPos + 1 = NumShards
                THEN [op |-> "flush_all", key |-> "", res |-> "Ok",
                      body |-> None]
                ELSE reply
    /\ flushMark' = [flushMark EXCEPT ![flushPos] = Len(expirers)]
    /\ UNCHANGED <<expirers, now, phase, fsDir, fsZip, snap, passes, restarts,
                   snapped, capacity, inflight>>

\* ------------------------------------------------------ ttl_check (task)
ExpirerIds == 1 .. Len(expirers)

\* A timer that never becomes due
ttl_check_timeout_never(id) ==
    /\ id \in ExpirerIds
    /\ expirers[id].pc = "race"
    /\ FALSE
    /\ UNCHANGED vars

\* The race is won by the timer: Timer::after(ttl) is due.  The race has no
\* preference when both branches are ready, so a closed channel does not
\* prevent this outcome.
ttl_check_timeout(id) ==
    /\ id \in ExpirerIds
    /\ expirers[id].pc = "race"
    /\ now >= expirers[id].deadline
    /\ expirers' = [expirers EXCEPT ![id].pc = "lock", ![id].result = "Timout"]
    /\ UNCHANGED <<shards, now, flushPos, phase, fsDir, fsZip, snap, passes,
                   restarts, reply, lastSet, snapped,
                   capacity, flushMark, inflight>>

\* The race is won by recv(): every sender is dropped, recv() fails, Closed
ttl_check_closed(id) ==
    /\ id \in ExpirerIds
    /\ expirers[id].pc = "race"
    /\ ~SenderAlive(id)
    /\ expirers' = [expirers EXCEPT ![id] = Terminated("Closed")]
    /\ UNCHANGED <<shards, now, flushPos, phase, fsDir, fsZip, snap, passes,
                   restarts, reply, lastSet, snapped,
                   capacity, flushMark, inflight>>

\* Timout branch: take the shard write lock, re-check, remove
ttl_check_remove(id) ==
    LET e == expirers[id]
        removes == ttl_check_removes(shards[e.shard_index], e.key) IN
    /\ id \in ExpirerIds
    /\ e.pc = "lock"
    /\ write_lock_free(e.shard_index)
    /\ shards' = IF removes
                 THEN [shards EXCEPT ![e.shard_index] = MapRemove(@, e.key)]
                 ELSE shards
    /\ lastSet' = IF removes THEN [lastSet EXCEPT ![e.key] = None] ELSE lastSet
    /\ expirers' = [expirers EXCEPT ![id] = Terminated("Timout")]
    /\ UNCHANGED <<now, flushPos, phase, fsDir, fsZip, snap, passes, restarts,
                   reply, snapped,
                   capacity, flushMark, inflight>>

\* The clock advances
Tick ==
    /\ now < MaxTime
    /\ now' = now + 1
    /\ UNCHANGED <<shards, expirers, flushPos, phase, fsDir, fsZip, snap,
                   passes, restarts, reply, lastSet, snapped,
                   capacity, flushMark, inflight>>


\* TTLPolicy::is_expired
TTLPolicy_is_expired(policy, t) == (t - policy.last_policy_update) > policy.ttl

\* TTLPolicy::expire_in with its two readings of the clock: is_expired reads
\* it at t1, and the subtraction reads last_policy_update.elapsed() again, at
\* t2 >= t1.  Duration's subtraction panics when the result would be
\* negative: None stands for the panic.
TTLPolicy_expire_in_reads(policy, t1, t2) ==
    IF ~TTLPolicy_is_expired(policy, t1)
    THEN (IF policy.ttl >= t2 - policy.last_policy_update
          THEN Some(policy.ttl - (t2 - policy.last_policy_update))
          ELSE None)
    ELSE Some(0)

\* Duration::as_secs
as_secs(d) == d \div TicksPerSec

\* handle_query for TTL: Storage::get_record, then expire_in of the policy
\* of the cloned record, formatted as whole seconds with the suffix s.  The
\* clock advances by dt between the two readings of expire_in.
Ttl(key, dt) ==
    LET r == get_record(shards, key)
        policy == IF IsSome(r.body) THEN Unwrap(r.body).ttl_policy ELSE None
        reads == IF IsSome(policy) /\ ~TTLPolicy_is_expired(Unwrap(policy), now)
                 THEN 2 ELSE 1
        remaining == IF IsSome(policy)
                     THEN TTLPolicy_expire_in_reads(Unwrap(policy), now,
                                                    now + dt)
                     ELSE None IN
    /\ Serving
    /\ write_lock_free(hash_key(key))
    /\ now + dt <= MaxTime
    /\ dt > 0 => reads = 2
    /\ reply' = IF r.res # "Ok"
                THEN [op |-> "ttl", key |-> key, res |-> r.res, body |-> None]
                ELSE IF ~IsSome(policy)
                THEN [op |-> "ttl", key |-> key, res |-> "TTLNotFound",
                      body |-> None]
                ELSE IF ~IsSome(remaining)
                THEN [op |-> "ttl", key |-> key, res |-> "panic",
                      body |-> None]
                ELSE [op |-> "ttl", key |-> key, res |-> "Ok",
                      body |-> Some(to_string(as_secs(Unwrap(remaining)))
                                    \o <<115>>)]
    /\ now' = now + dt
    /\ UNCHANGED <<shards, expirers, flushPos, phase, fsDir, fsZip, snap,
                   passes, restarts, lastSet, snapped, capacity, flushMark, inflight>>

\* TTLPolicy::expire_in: the remaining lifetime
TTLPolicy_expire_in(policy, t) ==
    IF ~TTLPolicy_is_expired(policy, t)
    THEN policy.ttl - (t - policy.last_policy_update)
    ELSE 0

\* ------------------------------------------------- record.rs (serde impls)
\* From<TTLPolicy> for SerializableTTLPolicy: whole seconds of the duration
\* and of the time elapsed since the policy was installed
SerializableTTLPolicy_from(policy, t) ==
    [ttl_secs |-> policy.ttl \div TicksPerSec,
     last_policy_update |-> (t - policy.last_policy_update) \div TicksPerSec]

\* From<SerializableTTLPolicy> for TTLPolicy: re-grounded at Instant::now()
TTLPolicy_from(serializable, t) ==
    [ttl |-> serializable.ttl_secs * TicksPerSec,
     last_policy_update |-> t - serializable.last_policy_update * TicksPerSec]

\* bincode::serialize of a shard map: each WrappedRecord gives its record;
\* detatched_task_ch is #[serde(skip)]
serialize_shard(table, t) ==
    [k \in DOMAIN table |->
        [data |-> table[k].record.data,
         ttl_policy |->
            IF IsSome(table[k].record.ttl_policy)
            THEN Some(SerializableTTLPolicy_from(
                          Unwrap(table[k].record.ttl_policy), t))
            ELSE None]]

\* bincode::deserialize of a shard file: the skipped handle is None
deserialize_shard(file, t) ==
    [k \in DOMAIN file |->
        [record |->
            [data |-> file[k].data,
             ttl_policy |->
                IF IsSome(file[k].ttl_policy)
                THEN Some(TTLPolicy_from(Unwrap(file[k].ttl_policy), t))
                ELSE None],
         detatched_task_ch |-> None]]

\* The content of a file that is no bincode encoding of a shard map (a torn
\* or foreign file), told apart by an entry under a name no key has
Garbage == [k \in {"?"} |-> [data |-> << >>, ttl_policy |-> None]]

\* bincode::deserialize(&buff): the shard map, or an error (None)
bincode_deserialize(file, t) ==
    IF "?" \in DOMAIN file THEN None ELSE Some(deserialize_shard(file, t))

\* ------------------------------------------------------- backup_handler.rs
\* The files of the backup directory (none when the directory is absent)
DirFiles == IF IsSome(fsDir) THEN Unwrap(fsDir) ELSE EmptyMap

\* unzip_backup: every archive member is written into the directory,
\* replacing a file of the same name
Extract(dirFiles, zipFiles) ==
    [f \in (DOMAIN dirFiles) \cup (DOMAIN zipFiles) |->
        IF f \in DOMAIN zipFiles THEN zipFiles[f] ELSE dirFiles[f]]

\* The backup task as recover_and_backup spawns it at time t: it waits for
\* Timer::after(interval) and then for the ticker, Timer::interval(interval),
\* whose first tick is one interval after its creation.  With an interval of
\* zero seconds both are due at once and the task is ready for its pass.
backup_task(interval, t) ==
    IF interval = 0 THEN [pc |-> "sleep", i |-> 0]
    ELSE [pc |-> "timer", i |-> 0, due |-> t + interval * TicksPerSec]

\* BackupHandler::recover, first part: unzip the archive if the file exists.
\* An archive that cannot be opened (truncated, unfinished) is logged and
\* recovery goes on.
recover_unzip ==
    /\ phase = "unzip"
    /\ fsDir' = IF IsSome(fsZip) /\ Unwrap(fsZip).complete
                     /\ DOMAIN Unwrap(fsZip).files # {}
                THEN Some(Extract(DirFiles, Unwrap(fsZip).files))
                ELSE fsDir
    /\ phase' = "load"
    /\ UNCHANGED <<shards, expirers, now, flushPos, fsZip, snap, passes,
                   restarts, reply, lastSet, snapped,
                   capacity, flushMark, inflight>>

\* BackupHandler::recover, second part, when read_dir fails or yields no
\* entry; recover_and_backup then spawns the backup task and the server
\* starts to accept clients.
recover_nothing(interval) ==
    /\ phase = "load"
    /\ DOMAIN DirFiles = {}
    /\ phase' = "serving"
    /\ snap' = backup_task(interval, now)
    /\ UNCHANGED <<shards, expirers, now, flushPos, fsDir, fsZip, passes,
                   restarts, reply, lastSet, snapped,
                   capacity, flushMark, inflight>>

\* BackupHandler::recover, second part: the loop over the directory entries.
\* remove_dir_all is called at the end of the body of the first iteration, so
\* the entries that follow are no longer files and are skipped; which entry
\* read_dir yields first is not specified.
recover_load(first, interval) ==
    /\ phase = "load"
    /\ first \in DOMAIN DirFiles
    /\ LET deserialized_shard == bincode_deserialize(DirFiles[first], now) IN
       /\ shards' = IF IsSome(deserialized_shard) /\ first < NumShards
                    THEN [shards EXCEPT ![first] = Unwrap(deserialized_shard)]
                    ELSE shards
       /\ capacity' = IF IsSome(deserialized_shard) /\ first < NumShards
                      THEN [capacity EXCEPT ![first] =
                               with_capacity(Cardinality(
                                   DOMAIN Unwrap(deserialized_shard)))]
                      ELSE capacity
    /\ fsDir' = None
    /\ phase' = "serving"
    /\ snap' = backup_task(interval, now)
    /\ UNCHANGED <<expirers, now, flushPos, fsZip, passes, restarts, reply,
                   lastSet, snapped, flushMark, inflight>>

\* The shard file that holds, without TTL, the keys of shard f; the file
\* name of index NumShards stands for a stem that gives no index below N
FileFor(f) ==
    serialize_shard([k \in {key \in Keys : hash_key(key) = f} |->
                        WrappedRecord_new(Record_new(PlainText, None, 0))], 0)

\* Before the process starts, the backup directory holds a file f that an
\* earlier run or someone else left there: a shard file or garbage
disk_file(f, content) ==
    /\ phase = "unzip"
    /\ restarts = 0
    /\ f \notin DOMAIN DirFiles
    /\ fsDir' = Some(MapInsert(DirFiles, f, content))
    /\ UNCHANGED <<shards, expirers, now, flushPos, phase, fsZip, snap, passes,
                   restarts, reply, lastSet, snapped, capacity, flushMark,
                   inflight>>

\* Before the process starts, the archive file exists: one that a crashed
\* pass left unfinished, or a complete one
disk_archive(archive) ==
    /\ phase = "unzip"
    /\ restarts = 0
    /\ fsZip = None
    /\ fsZip' = Some(archive)
    /\ UNCHANGED <<shards, expirers, now, flushPos, phase, fsDir, snap, passes,
                   restarts, reply, lastSet, snapped, capacity, flushMark,
                   inflight>>

\* The backup task is woken before its timer is due
backup_timer_at_once ==
    /\ Serving
    /\ snap.pc = "timer"
    /\ snap' = [pc |-> "sleep", i |-> 0]
    /\ UNCHANGED <<shards, expirers, now, flushPos, phase, fsDir, fsZip,
                   passes, restarts, reply, lastSet, snapped,
                   capacity, flushMark, inflight>>

\* Timer::after(interval) of the backup task fires; the first tick of the
\* ticker, created before it, is due by then
backup_timer ==
    /\ Serving
    /\ snap.pc = "timer"
    /\ now >= snap.due
    /\ snap' = [pc |-> "sleep", i |-> 0]
    /\ UNCHANGED <<shards, expirers, now, flushPos, phase, fsDir, fsZip,
                   passes, restarts, reply, lastSet, snapped,
                   capacity, flushMark, inflight>>

\* The backup task wakes up for a pass
backup_begin ==
    /\ Serving
    /\ snap.pc = "sleep"
    /\ passes < MaxPasses
    /\ snap' = [pc |-> "shards", i |-> 0]
    /\ passes' = passes + 1
    /\ UNCHANGED <<shards, expirers, now, flushPos, phase, fsDir, fsZip,
                   restarts, reply, lastSet, snapped,
                   capacity, flushMark, inflight>>

AfterShard(i) ==
    IF i + 1 = NumShards THEN [pc |-> "zip", i |-> 0]
    ELSE [pc |-> "shards", i |-> i + 1]

\* One iteration of the shard loop: serialize shard i under its read lock,
\* write_backup creates the directory and the file shard_i.mdb
backup_shard ==
    /\ snap.pc = "shards"
    /\ write_lock_free(snap.i)
    /\ fsDir' = Some(MapInsert(DirFiles, snap.i,
                               serialize_shard(shards[snap.i], now)))
    /\ snapped' = [snapped EXCEPT ![snap.i] =
                      Some([table |-> shards[snap.i], at |-> now])]
    /\ snap' = AfterShard(snap.i)
    /\ UNCHANGED <<shards, expirers, now, flushPos, phase, fsZip, passes,
                   restarts, reply, lastSet,
                   capacity, flushMark, inflight>>

\* An iteration in which the error of write_backup ends the pass
backup_shard_fail_abort ==
    /\ snap.pc = "shards"
    /\ fsDir' = Some(DirFiles)
    /\ snap' = [pc |-> "sleep", i |-> 0]
    /\ UNCHANGED <<shards, expirers, now, flushPos, phase, fsZip, passes,
                   restarts, reply, lastSet, snapped,
                   capacity, flushMark, inflight>>

\* One iteration of the shard loop in which write_backup fails when it opens
\* the file (the directory exists by then); the error is logged and the loop
\* continues
backup_shard_fail ==
    /\ snap.pc = "shards"
    /\ fsDir' = Some(DirFiles)
    /\ snap' = AfterShard(snap.i)
    /\ UNCHANGED <<shards, expirers, now, flushPos, phase, fsZip, passes,
                   restarts, reply, lastSet, snapped,
                   capacity, flushMark, inflight>>

\* create_zip_backup: the archive file is opened with create + truncate
create_zip_open ==
    /\ snap.pc = "zip"
    /\ fsZip' = Some([complete |-> FALSE, files |-> EmptyMap])
    /\ snap' = [pc |-> "zipping", i |-> 0]
    /\ UNCHANGED <<shards, expirers, now, flushPos, phase, fsDir, passes,
                   restarts, reply, lastSet, snapped,
                   capacity, flushMark, inflight>>

\* create_zip_backup: every file of the directory is added, then zip.finish
create_zip_finish ==
    /\ snap.pc = "zipping"
    /\ fsZip' = Some([complete |-> TRUE, files |-> DirFiles])
    /\ snap' = [pc |-> "rmdir", i |-> 0]
    /\ UNCHANGED <<shards, expirers, now, flushPos, phase, fsDir, passes,
                   restarts, reply, lastSet, snapped,
                   capacity, flushMark, inflight>>

\* create_zip_backup: remove_dir_all of the directory; the pass is over
create_zip_rmdir ==
    /\ snap.pc = "rmdir"
    /\ fsDir' = None
    /\ snap' = [pc |-> "sleep", i |-> 0]
    /\ UNCHANGED <<shards, expirers, now, flushPos, phase, fsZip, passes,
                   restarts, reply, lastSet, snapped,
                   capacity, flushMark, inflight>>

\* ------------------------------------------------------------------ core.rs
EmptyStore == [s \in ShardIds |-> EmptyMap]

\* The process stops at any point (crash or kill) and Mapper::start runs
\* again: Storage::default(), every task gone, the files on disk kept.
Restart ==
    /\ restarts < MaxRestarts
    /\ restarts' = restarts + 1
    /\ shards' = EmptyStore
    /\ expirers' = << >>
    /\ flushPos' = NumShards
    /\ phase' = "unzip"
    /\ snap' = [pc |-> "off", i |-> 0]
    /\ reply' = NoReply
    /\ lastSet' = [k \in Keys |-> None]
    /\ capacity' = [s \in ShardIds |-> 0]
    /\ flushMark' = [s \in ShardIds |-> 0]
    /\ inflight' = None
    /\ UNCHANGED <<now, fsDir, fsZip, passes, snapped>>

\* Mapper::start on a machine without backup files
Init ==
    /\ shards = EmptyStore
    /\ expirers = << >>
    /\ now = 0
    /\ flushPos = NumShards
    /\ phase = "unzip"
    /\ fsDir = None
    /\ fsZip = None
    /\ snap = [pc |-> "off", i |-> 0]
    /\ passes = 0
    /\ restarts = 0
    /\ reply = NoReply
    /\ lastSet = [k \in Keys |-> None]
    /\ snapped = [s \in ShardIds |-> None]
    /\ capacity = [s \in ShardIds |-> 0]
    /\ flushMark = [s \in ShardIds |-> 0]
    /\ inflight = None

\* The client operations of the expiry workload
ClientNext ==
    \/ \E key \in Keys, data \in Datas : set_record(key, data, None)
    \/ \E key \in Keys, data \in Datas, ttl \in TTLs :
           set_record(key, data, Some(ttl))
    \/ \E key \in Keys : remove_record(key)
    \/ \E key \in Keys, ttl \in TTLs : update_ttl(key, Some(ttl))
    \/ \E key \in Keys : update_ttl(key, None)
    \/ \E key \in Keys : update_ttl_not_found(key)
    \/ \E key \in Keys : Get(key)

\* The steps of the ttl_check tasks and of the clock
ExpirerNext ==
    \/ \E id \in ExpirerIds : ttl_check_timeout(id)
    \/ \E id \in ExpirerIds : ttl_check_closed(id)
    \/ \E id \in ExpirerIds : ttl_check_remove(id)
    \/ Tick

\* A process started without backup files, serving clients
Next ==
    \/ recover_unzip
    \/ recover_nothing(0)
    \/ ClientNext
    \/ ExpirerNext

Spec == Init /\ [][Next]_vars

\* The steps of the backup task
BackupNext ==
    \/ backup_begin
    \/ backup_shard
    \/ backup_shard_fail
    \/ create_zip_open
    \/ create_zip_finish
    \/ create_zip_rmdir

\* A process that takes snapshots, crashes and is started again; its clients
\* write a plain record under one key and a TTL record under another, and
\* are silent after the restart
SnapshotNext ==
    \/ recover_unzip
    \/ recover_nothing(0)
    \/ \E first \in ShardIds : recover_load(first, 0)
    \/ restarts = 0 /\ set_record("a", PlainText, None)
    \/ restarts = 0 /\ \E ttl \in TTLs : set_record("b", Binary, Some(ttl))
    \/ ExpirerNext
    \/ BackupNext
    \/ Restart

SnapshotSpec == Init /\ [][SnapshotNext]_vars


\* A process whose clients write text records with and without TTL, delete
\* them, change their TTL, and ask for the TTL of a key and for the size of
\* the store
QueryNext ==
    \/ recover_unzip
    \/ recover_nothing(0)
    \/ \E key \in Keys : set_record(key, PlainText, None)
    \/ \E key \in Keys, ttl \in TTLs : set_record(key, PlainText, Some(ttl))
    \/ \E key \in Keys : remove_record(key)
    \/ \E key \in Keys, ttl \in TTLs : update_ttl(key, Some(ttl))
    \/ \E key \in Keys : update_ttl(key, None)
    \/ \E key \in Keys, dt \in {0, 1} : Ttl(key, dt)
    \/ DbSize
    \/ ExpirerNext

QuerySpec == Init /\ [][QueryNext]_vars

\* A process whose clients write text records with and without TTL, flush
\* the store and ask for its size
FlushNext ==
    \/ recover_unzip
    \/ recover_nothing(0)
    \/ \E key \in Keys : set_record(key, PlainText, None)
    \/ \E key \in Keys, ttl \in TTLs : set_record(key, PlainText, Some(ttl))
    \/ flush_all_begin
    \/ flush_all_step
    \/ DbSize
    \/ ExpirerNext

FlushSpec == Init /\ [][FlushNext]_vars

\* A process whose storage calls are taken statement by statement: clients
\* write text records with and without TTL, change the TTL of a key, delete
\* and read while the expirers run
LockNext ==
    \/ recover_unzip
    \/ recover_nothing(0)
    \/ \E key \in Keys : set_record_lock(key, PlainText, None)
    \/ \E key \in Keys, ttl \in TTLs :
           set_record_lock(key, PlainText, Some(ttl))
    \/ set_record_insert
    \/ \E key \in Keys, ttl \in TTLs : update_ttl_lock(key, Some(ttl))
    \/ update_ttl_store
    \/ \E key \in Keys : remove_record_unlock(key)
    \/ remove_record_drop
    \/ \E key \in Keys : Get(key)
    \/ ExpirerNext

LockSpec == Init /\ [][LockNext]_vars

\* A process that starts on a disk with files of any kind in the backup
\* directory, with or without archive, and serves reads after recovery
RecoveryNext ==
    \/ \E f \in 0 .. NumShards : disk_file(f, FileFor(f))
    \/ \E f \in 0 .. NumShards : disk_file(f, Garbage)
    \/ \E archive \in {[complete |-> FALSE, files |-> EmptyMap],
                        [complete |-> TRUE, files |-> (1 :> FileFor(1))]} :
           disk_archive(archive)
    \/ recover_unzip
    \/ recover_nothing(0)
    \/ \E first \in 0 .. NumShards : recover_load(first, 0)
    \/ \E key \in Keys : Get(key)

RecoverySpec == Init /\ [][RecoveryNext]_vars

\* A process that takes snapshots while a client writes one plain record
PassNext ==
    \/ recover_unzip
    \/ recover_nothing(0)
    \/ set_record("a", PlainText, None)
    \/ Tick
    \/ BackupNext

\* The backup task is spawned on the executor, which runs it whenever its
\* timer or its file operation has completed
BackupFairness == WF_vars(BackupNext)

FairPassSpec == Init /\ [][PassNext]_vars /\ BackupFairness

\* A process started with a backup interval on a disk that may hold a shard
\* file: it recovers, serves writes, takes its snapshots when the timers are
\* due, may crash and is started again
StartNext ==
    \/ disk_file(2, FileFor(2))
    \/ recover_unzip
    \/ recover_nothing(backup_interval)
    \/ \E first \in ShardIds : recover_load(first, backup_interval)
    \/ \E key \in Keys : set_record(key, PlainText, None)
    \/ Tick
    \/ backup_timer
    \/ BackupNext
    \/ Restart

StartSpec == Init /\ [][StartNext]_vars

\* A process whose tasks meet at the shard locks: client calls taken
\* statement by statement, flush_all, db_size and the expirers, after a
\* recovery that may load a shard file; once restarted, the process takes
\* its snapshots while clients write TTL records
LockOrderNext ==
    \/ disk_file(1, FileFor(1))
    \/ recover_unzip
    \/ recover_nothing(0)
    \/ \E first \in ShardIds : recover_load(first, 0)
    \/ set_record_lock("a", PlainText, Some(1))
    \/ set_record_insert
    \/ restarts = 0 /\ update_ttl_lock("a", Some(1))
    \/ update_ttl_store
    \/ restarts = 0 /\ remove_record_unlock("a")
    \/ remove_record_drop
    \/ restarts = 0 /\ Get("a")
    \/ restarts = 0 /\ flush_all_begin
    \/ flush_all_step
    \/ restarts = 0 /\ DbSize
    \/ ExpirerNext
    \/ restarts > 0 /\ BackupNext
    \/ Restart

LockOrderSpec == Init /\ [][LockOrderNext]_vars

\* A process whose client calls on one key are taken statement by statement
\* and may be suspended at the lock and dropped there by their caller
AbandonNext ==
    \/ recover_unzip
    \/ recover_nothing(0)
    \/ \E op \in {"set", "update_ttl", "del"} : storage_call_await(op, "a")
    \/ abandon
    \/ set_record_lock("a", PlainText, None)
    \/ \E ttl \in TTLs : set_record_lock("a", PlainText, Some(ttl))
    \/ set_record_insert
    \/ \E ttl \in TTLs : update_ttl_lock("a", Some(ttl))
    \/ update_ttl_store
    \/ remove_record_unlock("a")
    \/ remove_record_drop
    \/ Get("a")
    \/ ExpirerNext

AbandonSpec == Init /\ [][AbandonNext]_vars

\* A process whose clients flush the store while they write a plain record
\* under one key and TTL records under the other
ClearNext ==
    \/ recover_unzip
    \/ recover_nothing(0)
    \/ set_record("a", PlainText, None)
    \/ \E ttl \in TTLs : set_record("b", PlainText, Some(ttl))
    \/ flush_all_begin
    \/ flush_all_step
    \/ ExpirerNext

ClearSpec == Init /\ [][ClearNext]_vars

\* ---------------------------------------------------------------- fairness
\* The executor runs every ready ttl_check task and the clock advances.
ExpirerFairness ==
    /\ WF_vars(Tick)
    /\ \A id \in 1 .. MaxExpirers :
          /\ WF_vars(ttl_check_timeout(id))
          /\ WF_vars(ttl_check_closed(id))
          /\ WF_vars(ttl_check_remove(id))

\* The expiry workload on one key, with TTL records also written under the
\* other key
LiveNext ==
    \/ recover_unzip
    \/ recover_nothing(0)
    \/ \E data \in Datas : set_record("a", data, None)
    \/ \E data \in Datas, ttl \in TTLs : set_record("a", data, Some(ttl))
    \/ \E ttl \in TTLs : set_record("b", Binary, Some(ttl))
    \/ remove_record("a")
    \/ \E ttl \in TTLs : update_ttl("a", Some(ttl))
    \/ update_ttl("a", None)
    \/ ExpirerNext

FairSpec == Init /\ [][LiveNext]_vars /\ ExpirerFairness

FairSnapshotSpec == SnapshotSpec /\ ExpirerFairness

\* A process whose clients write a TTL record under one key, make it
\* persistent, delete it and flush the store
ExpiryNext ==
    \/ recover_unzip
    \/ recover_nothing(0)
    \/ set_record("a", PlainText, Some(1))
    \/ remove_record("a")
    \/ update_ttl("a", None)
    \/ flush_all_begin
    \/ flush_all_step
    \/ ExpirerNext

FairExpirySpec == Init /\ [][ExpiryNext]_vars /\ ExpirerFairness

\* ------------------------------------------------------- state functions
\* The entry stored under key, as an Option
Entry(key) ==
    IF key \in DOMAIN shards[hash_key(key)]
    THEN Some(shards[hash_key(key)][key])
    ELSE None

Present(key) == IsSome(Entry(key))

\* Expirer id performs its removal of key in this step
ExpirerRemoves(id, key) ==
    /\ id \in ExpirerIds
    /\ expirers[id].pc = "lock"
    /\ expirers[id].key = key
    /\ id <= Len(expirers')
    /\ expirers'[id].pc = "done"
    /\ Present(key)
    /\ ~Present(key)'

\* key holds a record with a TTL policy whose handle is that of expirer id
Installed(key, id) ==
    /\ Present(key)
    /\ IsSome(Unwrap(Entry(key)).record.ttl_policy)
    /\ Unwrap(Entry(key)).detatched_task_ch = Some(id)

\* --------------------------------------------------------------- claims

\* C1: a record installed under key k with a TTL (by SETEX or EXPIRE), whose
\* key no later operation touches, is eventually absent: under fair
\* scheduling, a key that holds a TTL policy with the handle of expirer id
\* does not stay so forever; it is removed, or an operation replaces its
\* handle or clears its policy.
C1_EventualExpiration ==
    \A key \in Keys : \A id \in 1 .. MaxExpirers :
        Installed(key, id) ~> ~Installed(key, id)

\* C1 witness: the last client operation installed a TTL under a key, the
\* expirer it spawned has timed out and returned, and the key is absent.
C1_Witness ==
    \E key \in Keys :
        /\ reply.key = key
        /\ reply.op \in {"set", "update_ttl"}
        /\ reply.res = "Ok"
        /\ ~Present(key)
        /\ expirers # << >>
        /\ expirers[Len(expirers)].pc = "done"
        /\ expirers[Len(expirers)].result = "Timout"

\* C2: a key whose current TTL policy was installed by update_ttl (EXPIRE) is
\* removed by no expirer other than the one that call spawned: the expirer
\* of an earlier SETEX or EXPIRE never removes it.
C2_CancellationSafety ==
    [][\A key \in Keys : \A id \in ExpirerIds :
          ( /\ ExpirerRemoves(id, key)
            /\ IsSome(Unwrap(Entry(key)).detatched_task_ch)
            /\ expirers[Unwrap(Unwrap(Entry(key)).detatched_task_ch)].by
                   = "update_ttl" )
          => Unwrap(Entry(key)).detatched_task_ch = Some(id)]_vars

\* C3: when an operation changes the entry of a key while an expirer of that
\* key has already won its race with the timer (it waits for the write
\* lock), the entry it leaves does not warrant removal by that expirer's
\* re-check.
C3_AsyncCancellationSafe ==
    [][\A key \in Keys : \A id \in ExpirerIds :
          ( /\ expirers[id].pc = "lock"
            /\ expirers[id].key = key
            /\ id <= Len(expirers')
            /\ expirers'[id].pc = "lock"
            /\ Entry(key)' # Entry(key) )
          => ~ttl_check_removes(shards'[hash_key(key)], key)]_vars

\* C4: an expirer never removes an entry whose record has no TTL policy at
\* the moment of the removal.
C4_NoPolicyNeverExpires ==
    [][\A key \in Keys : \A id \in ExpirerIds :
          ExpirerRemoves(id, key)
          => IsSome(Unwrap(Entry(key)).record.ttl_policy)]_vars

\* C4 witness: after SETEX and PERSIST the old expirer has timed out and
\* returned, and the key is still present, without a policy.
C4_Witness ==
    \E key \in Keys : \E id \in ExpirerIds :
        /\ expirers[id].pc = "done"
        /\ expirers[id].result = "Timout"
        /\ Present(key)
        /\ Unwrap(Entry(key)).detatched_task_ch = Some(id)
        /\ Unwrap(Entry(key)).record.ttl_policy = None

\* C5: every stored WrappedRecord has a handle if and only if its record has
\* a TTL policy.
C5_ExpirerPairing ==
    \A key \in Keys :
        Present(key) =>
            (IsSome(Unwrap(Entry(key)).detatched_task_ch)
                <=> IsSome(Unwrap(Entry(key)).record.ttl_policy))

\* C10: while the last set of a key has not been undone by a delete, a
\* flush or an expiration, get returns a record with the data of that set.
C10_ReadYourWrite ==
    \A key \in Keys :
        IsSome(lastSet[key]) =>
            /\ get_record(shards, key).res = "Ok"
            /\ Unwrap(get_record(shards, key).body).data = Unwrap(lastSet[key])

\* C10 witness: a GET has answered the data of a set, under a key that is
\* still set to that data.
C10_Witness ==
    /\ reply.op = "get"
    /\ reply.res = "Ok"
    /\ reply.body = Some(PlainText)
    /\ lastSet[reply.key] = Some(PlainText)
    /\ \E id \in ExpirerIds : expirers[id].pc = "done"


\* Startup recovery completes in this step
RecoveryCompletes == phase = "load" /\ phase' = "serving"

\* The archive is that of a completed pass over all shards, and the
\* directory holds exactly its extraction
CompleteArchiveExtracted ==
    /\ IsSome(fsZip)
    /\ Unwrap(fsZip).complete
    /\ DOMAIN Unwrap(fsZip).files = ShardIds
    /\ DirFiles = Unwrap(fsZip).files
    /\ \A i \in ShardIds :
          /\ IsSome(snapped[i])
          /\ DirFiles[i] = serialize_shard(Unwrap(snapped[i]).table,
                                           Unwrap(snapped[i]).at)

\* The recovered map holds the keys and data of the map that was
\* serialized at time at, each TTL policy with the same ttl and the same
\* remaining lifetime
SameShard(table, at, recovered, t) ==
    /\ DOMAIN recovered = DOMAIN table
    /\ \A k \in DOMAIN table :
          /\ recovered[k].record.data = table[k].record.data
          /\ IsSome(recovered[k].record.ttl_policy)
                = IsSome(table[k].record.ttl_policy)
          /\ IsSome(table[k].record.ttl_policy) =>
                /\ Unwrap(recovered[k].record.ttl_policy).ttl
                      = Unwrap(table[k].record.ttl_policy).ttl
                /\ TTLPolicy_expire_in(Unwrap(recovered[k].record.ttl_policy), t)
                      = TTLPolicy_expire_in(Unwrap(table[k].record.ttl_policy), at)

\* C6: a completed backup pass followed by startup recovery gives back, in
\* every shard, the keys and data that were serialized, each TTL policy with
\* the same ttl and remaining lifetime.
C6_PersistenceRoundTrip ==
    [][(RecoveryCompletes /\ CompleteArchiveExtracted) =>
          \A i \in ShardIds :
              SameShard(Unwrap(snapped[i]).table, Unwrap(snapped[i]).at,
                        shards'[i], now')]_vars

\* A record restored by recovery: it has a TTL policy and no handle
Recovered(key) ==
    /\ restarts > 0
    /\ Present(key)
    /\ IsSome(Unwrap(Entry(key)).record.ttl_policy)
    /\ Unwrap(Entry(key)).detatched_task_ch = None

\* C7: a TTL record restored by startup recovery, whose key no later
\* operation touches, is eventually removed.
C7_RecoveredRecordExpires ==
    \A key \in Keys : Recovered(key) ~> ~Recovered(key)

\* C8: the archive file, whenever it exists, is a complete archive that
\* holds the files of all the shards.
C8_AtomicPackaging ==
    IsSome(fsZip) =>
        /\ Unwrap(fsZip).complete
        /\ DOMAIN Unwrap(fsZip).files = ShardIds

\* C9: when the archive file is absent at startup, recovery leaves every
\* shard empty.
C9_NoArchiveEmptyStore ==
    [][(RecoveryCompletes /\ fsZip = None) => shards' = EmptyStore]_vars

\* C11: a get answers RecordNotFound exactly when the shard of the key holds
\* no entry for the key, and a get that answers RecordNotFound leaves the
\* store and the expirers unchanged.
C11_GetNotFound ==
    [][(reply' # reply /\ reply'.op = "get") =>
          /\ (reply'.res = "RecordNotFound") <=> ~Present(reply'.key)
          /\ (reply'.res = "RecordNotFound") =>
                (shards' = shards /\ expirers' = expirers)]_vars

\* C11 witness: a GET has answered RecordNotFound for a key that a set had
\* stored with a TTL and that its expirer has removed.
C11_Witness ==
    /\ reply.op = "get"
    /\ reply.res = "RecordNotFound"
    /\ ~Present(reply.key)
    /\ \E id \in ExpirerIds :
          expirers[id].pc = "done" /\ expirers[id].result = "Timout"

\* C12: the GET verb answers the stored bytes or RecordNotFound, whatever
\* bytes SET or SETEX have stored under the key.
C12_GetOpaqueBytes ==
    [][(reply' # reply /\ reply'.op = "get") =>
          \/ reply'.res = "RecordNotFound"
          \/ /\ reply'.res = "Ok"
             /\ Present(reply'.key)
             /\ reply'.body = Some(Unwrap(Entry(reply'.key)).record.data)]_vars

\* C13: a delete answers success; after it, and as long as it is the last
\* client operation, get answers RecordNotFound for its key; a delete of an
\* absent key leaves every shard and every expirer unchanged.
C13_DeleteIdempotent ==
    [][reply'.op = "del" =>
          /\ reply'.res = "Ok"
          /\ get_record(shards', reply'.key).res = "RecordNotFound"
          /\ (reply' # reply /\ ~Present(reply'.key)) =>
                (shards' = shards /\ expirers' = expirers)]_vars

\* C13 witness: the last client operation is a delete, its key is absent,
\* and the expirer of the record it removed has seen its channel closed.
C13_Witness ==
    /\ reply.op = "del"
    /\ reply.res = "Ok"
    /\ ~Present(reply.key)
    /\ \E id \in ExpirerIds :
          expirers[id].pc = "done" /\ expirers[id].result = "Closed"

\* C14: an update_ttl answers RecordNotFound exactly when its key is absent,
\* and then it creates no record, spawns no expirer and changes no shard.
C14_UpdateTtlNotFound ==
    [][(reply' # reply /\ reply'.op = "update_ttl") =>
          /\ (reply'.res = "RecordNotFound") <=> ~Present(reply'.key)
          /\ (reply'.res = "RecordNotFound") =>
                /\ shards' = shards
                /\ expirers' = expirers
                /\ reply'.key \notin DOMAIN shards'[hash_key(reply'.key)]]_vars

\* C14 witness: an update_ttl has answered RecordNotFound for an absent key
\* while an expirer is running for a record under another key.
C14_Witness ==
    /\ reply.op = "update_ttl"
    /\ reply.res = "RecordNotFound"
    /\ ~Present(reply.key)
    /\ \E id \in ExpirerIds :
          expirers[id].pc = "race" /\ expirers[id].key # reply.key

\* The number of entries of the store
EntryCount ==
    SumBelow([s \in ShardIds |-> Cardinality(DOMAIN shards[s])], NumShards)

\* C15: DBSIZE answers the number of entries of the store, the sum over the
\* shards of the number of keys of the map.
C15_DbSizeCountsEntries ==
    [][(reply' # reply /\ reply'.op = "db_size") =>
          reply'.body = Some(to_string(EntryCount))]_vars

\* C16: a DBSIZE that follows a completed FLUSHALL, with no entry inserted
\* since the flush cleared the shards, answers 0.
C16_FlushThenDbSizeZero ==
    [][( /\ reply.op = "flush_all"
         /\ reply'.op = "db_size"
         /\ EntryCount = 0 ) =>
          reply'.body = Some(to_string(0))]_vars

\* C17: an expirer that was spawned before flush_all cleared a shard removes
\* no entry from that shard afterwards: an expirer that removes an entry was
\* spawned after the last clear of the shard of its key.
C17_FlushSilencesExpirers ==
    [][\A key \in Keys : \A id \in ExpirerIds :
          ExpirerRemoves(id, key) => id > flushMark[hash_key(key)]]_vars

\* C18: a key is stored in one shard at most, and the shard that stores a
\* key is the shard hash_key gives for it.
C18_UniquePlacement ==
    /\ \A i \in ShardIds : \A key \in DOMAIN shards[i] : hash_key(key) = i
    /\ \A i, j \in ShardIds :
          (DOMAIN shards[i]) \cap (DOMAIN shards[j]) # {} => i = j

\* C18 witness: two keys are stored, and a backup pass has written the
\* shards to disk.
C18_Witness ==
    /\ Present("a")
    /\ Present("b")
    /\ passes > 0
    /\ snap.pc = "sleep"

\* The remaining lifetime of a policy at time t, by its definition
Remaining(policy, t) ==
    IF policy.ttl >= t - policy.last_policy_update
    THEN policy.ttl - (t - policy.last_policy_update)
    ELSE 0

\* C19: the TTL verb answers RecordNotFound exactly when the key is absent,
\* TTLNotFound exactly when the key is present without TTL policy, and
\* otherwise the remaining lifetime of the policy (at an instant of the
\* call) in whole seconds with the suffix s, never more than the ttl.
C19_TtlVerb ==
    [][(reply' # reply /\ reply'.op = "ttl") =>
          LET key == reply'.key IN
          /\ (reply'.res = "RecordNotFound") <=> ~Present(key)
          /\ (reply'.res = "TTLNotFound") <=>
                (Present(key) /\ ~IsSome(Unwrap(Entry(key)).record.ttl_policy))
          /\ (Present(key) /\ IsSome(Unwrap(Entry(key)).record.ttl_policy)) =>
                LET policy == Unwrap(Unwrap(Entry(key)).record.ttl_policy) IN
                /\ reply'.res = "Ok"
                /\ \E t \in {now, now'} :
                      /\ reply'.body = Some(to_string(as_secs(Remaining(policy, t)))
                                            \o <<115>>)
                      /\ as_secs(Remaining(policy, t)) <= as_secs(policy.ttl)]_vars

\* C20: whenever the remaining lifetime of a policy is computed, with the
\* clock read at now for the expiry test and at now' for the subtraction,
\* the computation gives max(0, ttl - elapsed) and does not fail.
C20_ExpireInTotal ==
    [][(reply' # reply /\ reply'.op = "ttl" /\ Present(reply'.key)
          /\ IsSome(Unwrap(Entry(reply'.key)).record.ttl_policy)) =>
          LET policy == Unwrap(Unwrap(Entry(reply'.key)).record.ttl_policy) IN
          TTLPolicy_expire_in_reads(policy, now, now')
              = Some(Remaining(policy, now'))]_vars

\* The backup task writes the file of shard i in this step
WritesShardFile(i) ==
    /\ snap.pc = "shards"
    /\ snap.i = i
    /\ snap' = AfterShard(i)
    /\ snapped'[i] = Some([table |-> shards[i], at |-> now])
    /\ i \in DOMAIN DirFiles'

\* C21: a TTL policy that is serialized and deserialized at once has the
\* same ttl and the same remaining lifetime, ttl minus the time elapsed:
\* every policy of a shard file, re-grounded at the moment the file is
\* written, is worth the policy it was written from.
C21_RegroundingPreservesLifetime ==
    [][\A i \in ShardIds :
          WritesShardFile(i) =>
             \A k \in DOMAIN shards[i] :
                IsSome(shards[i][k].record.ttl_policy) =>
                   LET policy == Unwrap(shards[i][k].record.ttl_policy)
                       file == DirFiles'[i][k]
                       regrounded ==
                           TTLPolicy_from(Unwrap(file.ttl_policy), now') IN
                   /\ regrounded.ttl = policy.ttl
                   /\ Remaining(regrounded, now') = Remaining(policy, now)]_vars

\* Expirer id can go on to remove the entry stored under key without any
\* other task taking a step: its timer has won the race, or is due while
\* recv() is not ready, and the re-check under the write lock would find
\* the entry
CanRemove(id, key) ==
    /\ id \in ExpirerIds
    /\ expirers[id].key = key
    /\ \/ expirers[id].pc = "lock"
       \/ /\ expirers[id].pc = "race"
          /\ now >= expirers[id].deadline
          /\ recv(id) = None
    /\ ttl_check_removes(shards[hash_key(key)], key)

\* C22: no two expirers of a key can both still remove the record that is
\* stored under the key.
C22_OneEffectiveExpirer ==
    \A key \in Keys : \A id1, id2 \in ExpirerIds :
        (CanRemove(id1, key) /\ CanRemove(id2, key)) => id1 = id2

\* In this step a set replaces the entry of key, which held the handle of
\* expirer id
SetOverwrites(key, id) ==
    /\ reply'.op = "set"
    /\ reply'.key = key
    /\ Present(key)
    /\ Unwrap(Entry(key)).detatched_task_ch = Some(id)
    /\ Present(key)'
    /\ Unwrap(Entry(key)').detatched_task_ch # Some(id)

\* C23: when a set replaces an entry that holds the handle of an expirer
\* still in its race, the expirer's recv() is ready with Cancelled once the
\* set is done.
C23_SetSendsCancelled ==
    [][\A key \in Keys : \A id \in ExpirerIds :
          (SetOverwrites(key, id) /\ expirers[id].pc = "race")
          => recv(id)' = Some("Cancelled")]_vars

\* A task takes the lock of the shard in this step: an expirer makes its
\* lookup there, the map of the shard changes, or a client call on a key of
\* the shard completes
LockTaken(shard_index) ==
    \/ \E id \in ExpirerIds :
          /\ expirers[id].pc = "lock"
          /\ expirers[id].shard_index = shard_index
          /\ expirers'[id].pc = "done"
    \/ shards'[shard_index] # shards[shard_index]
    \/ reply' # reply /\ hash_key(reply'.key) = shard_index

\* A delete has removed an entry with an expirer handle and has not yet
\* dropped the removed WrappedRecord, so the sender is still alive
DeleteHoldsRemoved ==
    /\ IsSome(inflight)
    /\ Unwrap(inflight).op = "del"
    /\ IsSome(Unwrap(inflight).wrecord.detatched_task_ch)

\* C24: between the removal of the entry by a delete and the drop of the
\* removed record's sender, no other task takes the lock of the shard.
C24_DeleteCancelsUnderLock ==
    [][(DeleteHoldsRemoved /\ DeleteHoldsRemoved') =>
          ~LockTaken(hash_key(Unwrap(inflight).key))]_vars

\* The call that spawned expirer id has not yet stored the WrappedRecord
\* with the handle of id
SpawningCallUnderWay(id) ==
    /\ IsSome(inflight)
    /\ Unwrap(inflight).op \in {"set", "update_ttl"}
    /\ Unwrap(inflight).wrecord.detatched_task_ch = Some(id)

\* C28: an expirer makes its lookup only after the set or update_ttl that
\* spawned it has stored the record and released the write lock: while the
\* spawning call is under way the expirer is in its race or waits for the
\* lock, and once it has made its lookup the call is over.
C28_ExpirerAfterSpawningCall ==
    \A id \in ExpirerIds :
        SpawningCallUnderWay(id) => expirers[id].pc \in {"race", "lock"}

\* C28 witness: the timer of an expirer has fired while the call that
\* spawned it still holds the write lock; the expirer waits for the lock.
C28_Witness ==
    \E id \in ExpirerIds :
        /\ SpawningCallUnderWay(id)
        /\ expirers[id].pc = "lock"
        /\ now >= expirers[id].deadline

\* This step is an update_ttl with Some(d) on key: it answers Ok and spawns
\* an expirer
UpdateTtlSome(key) ==
    /\ reply'.op = "update_ttl"
    /\ reply'.res = "Ok"
    /\ reply'.key = key
    /\ Len(expirers') = Len(expirers) + 1

\* C25: an update_ttl with Some(d) on a present key installs a policy of
\* duration d, dated now, and the handle of the expirer it spawns for the
\* key; the data of the record, the entries of all other keys and the
\* expirers that exist are unchanged.
C25_UpdateTtlFrame ==
    [][\A key \in Keys :
          UpdateTtlSome(key) =>
             LET fresh == Len(expirers')
                 d == expirers'[fresh].deadline - now IN
             /\ Present(key) /\ Present(key)'
             /\ d \in TTLs
             /\ expirers'[fresh].key = key
             /\ expirers'[fresh].pc = "race"
             /\ Unwrap(Entry(key)').record.ttl_policy
                   = Some([ttl |-> d, last_policy_update |-> now])
             /\ Unwrap(Entry(key)').detatched_task_ch = Some(fresh)
             /\ Unwrap(Entry(key)').record.data = Unwrap(Entry(key)).record.data
             /\ \A k \in Keys \ {key} : Entry(k)' = Entry(k)
             /\ \A i \in ShardIds : DOMAIN shards'[i] = DOMAIN shards[i]
             /\ SubSeq(expirers', 1, Len(expirers)) = expirers]_vars

\* C25 witness: an EXPIRE has given a key the handle of the second expirer
\* while the other key holds a TTL record with the handle of the first.
C25_Witness ==
    /\ reply.op = "update_ttl"
    /\ reply.res = "Ok"
    /\ Installed(reply.key, 2)
    /\ expirers[2].by = "update_ttl"
    /\ \E k \in Keys \ {reply.key} : Installed(k, 1)

\* This step is an update_ttl with None (PERSIST) on key: it answers Ok,
\* spawns nothing and is no mere repetition
PersistStep(key) ==
    /\ reply'.op = "update_ttl"
    /\ reply'.res = "Ok"
    /\ reply'.key = key
    /\ expirers' = expirers
    /\ (reply' # reply \/ Entry(key)' # Entry(key))

\* C26: an update_ttl with None on a record whose expirer is in its race
\* clears the policy and cancels the expirer: once the call is done the
\* expirer's recv() is ready, so that it ends without waiting for its timer.
C26_PersistCancelsExpirer ==
    [][\A key \in Keys : \A id \in ExpirerIds :
          ( /\ PersistStep(key)
            /\ Present(key)
            /\ Unwrap(Entry(key)).detatched_task_ch = Some(id)
            /\ expirers[id].pc = "race" )
          => /\ Unwrap(Entry(key)').record.ttl_policy = None
             /\ IsSome(recv(id)')]_vars

\* C27: an expirer whose timer has won the race makes one lookup: it
\* removes the entry of its key exactly when the key is present with a TTL
\* policy, leaves the entry as it is otherwise, touches no other key and
\* terminates.
C27_ExpirerRecheck ==
    [][\A id \in ExpirerIds : \A key \in Keys :
          (expirers[id].pc = "lock" /\ expirers[id].key = key
             /\ id <= Len(expirers') /\ expirers'[id].pc = "done") =>
             /\ ~Present(key)'
                  <=> ~(Present(key)
                        /\ ~IsSome(Unwrap(Entry(key)).record.ttl_policy))
             /\ Present(key)' => Entry(key)' = Entry(key)
             /\ \A k \in Keys \ {key} : Entry(k)' = Entry(k)
             /\ expirers'[id] = Terminated("Timout")]_vars

\* C27 witness: the first expirer has made its lookup and removed its key,
\* while the TTL record of the other key and its expirer are in place.
C27_Witness ==
    /\ Len(expirers) = 2
    /\ expirers[1] = Terminated("Timout")
    /\ expirers[2].pc = "race"
    /\ Installed(expirers[2].key, 2)
    /\ \E k \in Keys \ {expirers[2].key} : ~Present(k)

\* The directory holds a file of index i below N whose contents deserialize
Loadable(i) ==
    /\ i \in DOMAIN DirFiles
    /\ i < NumShards
    /\ IsSome(bincode_deserialize(DirFiles[i], now))

\* C29: after startup recovery every shard whose file is in the directory,
\* with an index below N and contents that deserialize, holds the contents
\* of its file.
C29_RecoveryRestoresEveryFile ==
    [][RecoveryCompletes =>
          \A i \in ShardIds :
              Loadable(i) =>
                 shards'[i] = Unwrap(bincode_deserialize(DirFiles[i], now))]_vars

\* The archive file exists and its extraction fails
ExtractionFails == IsSome(fsZip) /\ ~Unwrap(fsZip).complete

\* C30: a file that does not deserialize or gives no index below N changes
\* no shard; a failed extraction leaves recovery to go on with the
\* directory as it is, and recovery then loads the files that are there.
C30_RecoverySkipsMalformed ==
    [][/\ RecoveryCompletes =>
             \A i \in ShardIds : ~Loadable(i) => shards'[i] = shards[i]
       /\ (phase = "unzip" /\ phase' # "unzip" /\ ExtractionFails) =>
             (phase' = "load" /\ fsDir' = fsDir)
       /\ (RecoveryCompletes /\ ExtractionFails) =>
             \A i \in ShardIds :
                 Loadable(i) =>
                    shards'[i]
                       = Unwrap(bincode_deserialize(DirFiles[i], now))]_vars

\* The running pass went past shard i without writing its file
FailedAt(i) ==
    /\ snap.pc \in {"shards", "zip"}
    /\ snap.pc = "shards" => snap.i > i
    /\ i \notin DOMAIN DirFiles

\* C31: an iteration of the shard loop that ends in an error goes on to the
\* next shard (to packaging after the last shard); a pass in which shard i
\* failed reaches packaging, and the loop then waits for its next tick.
C31_ShardErrorDoesNotAbortPass ==
    /\ [][\A i \in ShardIds :
             (/\ snap.pc = "shards"
              /\ snap.i = i
              /\ snap' # snap
              /\ i \notin DOMAIN DirFiles') => snap' = AfterShard(i)]_vars
    /\ \A i \in ShardIds : FailedAt(i) ~> (snap.pc = "zip" /\ FailedAt(i))
    /\ \A i \in ShardIds : FailedAt(i) ~> (snap.pc = "sleep")

\* Shard 0 failed and every shard after it was written in the same pass
C31_Witness ==
    /\ snap.pc = "zip"
    /\ FailedAt(0)
    /\ \A j \in ShardIds : j > 0 => j \in DOMAIN DirFiles
    /\ Present("a")

\* C32: until recovery has completed no backup task exists and no client
\* operation has run; recovery writes into an empty store and is not entered
\* again while the process lives; the backup task set up when recovery
\* completes begins a pass only after its timer, due one interval later, has
\* fired, so the first pass of a process started at time 0 is not before one
\* interval.
C32_RecoveryBeforeServing ==
    /\ [](phase # "serving" =>
            /\ snap.pc = "off"
            /\ reply = NoReply
            /\ expirers = << >>
            /\ \A key \in Keys : lastSet[key] = None)
    /\ [][RecoveryCompletes =>
             /\ shards = EmptyStore
             /\ snap' = [pc |-> "timer", i |-> 0,
                         due |-> now + backup_interval * TicksPerSec]]_vars
    /\ [][(phase = "serving" /\ phase' # "serving") =>
             restarts' = restarts + 1]_vars
    /\ [][(snap.pc = "timer" /\ snap'.pc # "timer" /\ restarts' = restarts) =>
             (snap'.pc = "sleep" /\ now >= snap.due)]_vars
    /\ [][(snap.pc # "shards" /\ snap'.pc = "shards") =>
             snap.pc = "sleep"]_vars
    /\ []((restarts = 0 /\ passes > 0) =>
             now >= backup_interval * TicksPerSec)

\* The first pass runs over a store that holds a recovered record and a
\* record a client wrote after recovery
C32_Witness ==
    /\ restarts = 0
    /\ snap.pc = "shards"
    /\ Present("a")
    /\ Present("b")
    /\ lastSet["a"] # None
    /\ lastSet["b"] = None

\* The shards whose write lock is held between two steps
LockedShards == {s \in ShardIds : WriteLocked(s)}

CallPastTheLock ==
    /\ IsSome(inflight)
    /\ Unwrap(inflight).op \in {"set", "update_ttl", "del"}

\* C34: a call that holds a lock or has changed the store cannot be
\* dropped by its caller; a call is suspended before it has changed
\* anything, and dropping it there leaves the shards, the expirers and the
\* last reply as they are.
C34_AbandonLeavesNoHalfWrite ==
    /\ [](CallPastTheLock => ~ENABLED abandon)
    /\ [][(/\ inflight = None
           /\ IsSome(inflight')
           /\ Unwrap(inflight').op = "await") =>
             UNCHANGED <<shards, expirers, capacity, lastSet, reply>>]_vars
    /\ [][(/\ IsSome(inflight)
           /\ Unwrap(inflight).op = "await"
           /\ inflight' = None) =>
             UNCHANGED <<shards, expirers, capacity, lastSet, reply>>]_vars

\* A SETEX over a TTL record has spawned its expirer and not yet inserted
\* the record
C34_Witness ==
    /\ CallPastTheLock
    /\ Unwrap(inflight).op = "set"
    /\ IsSome(Unwrap(inflight).wrecord.detatched_task_ch)
    /\ Present("a")
    /\ IsSome(Unwrap(Entry("a")).detatched_task_ch)

\* flush_all returns: its loop leaves the last shard
FlushReturns == flushPos = NumShards - 1 /\ flushPos' = NumShards

\* C35: when flush_all returns, every entry of the store was put there by a
\* set that came after flush_all cleared the shard of its key (its expirer,
\* if it has one, was spawned after that clear); when no set came in
\* between, no shard has an entry.
C35_FlushRemovesEveryRecord ==
    [][FlushReturns =>
          /\ \A key \in Keys :
                Present(key)' =>
                   /\ lastSet'[key] # None
                   /\ \A id \in ExpirerIds :
                         shards'[hash_key(key)][key].detatched_task_ch
                               = Some(id)
                            => id > flushMark'[hash_key(key)]
          /\ (\A key \in Keys : lastSet'[key] = None) => EntryCount' = 0]_vars

\* flush_all has returned after it cleared a TTL record of shard 2 and
\* while a set put a record into shard 1, which it had already cleared
C35_Witness ==
    /\ reply.op = "flush_all"
    /\ flushPos = NumShards
    /\ Present("a")
    /\ ~Present("b")
    /\ flushMark[2] > 0

\* Expirer id has been spawned and has not returned
Running(id) == id \in ExpirerIds /\ expirers[id].pc # "done"

\* Expirer id has returned
Returned(id) == id \in ExpirerIds /\ expirers[id].pc = "done"

\* C36: every spawned expirer returns, by one of the three results of its
\* race; an expirer that has returned takes no further step, and an expirer
\* removes an entry only in the step by which it returns, on the result
\* Timout, so it removes once at most.
C36_ExpirerTerminates ==
    /\ \A id \in 1 .. MaxExpirers : Running(id) ~> Returned(id)
    /\ [](\A id \in ExpirerIds :
            Returned(id) =>
               expirers[id].result \in {"Timout", "Cancelled", "Closed"})
    /\ [][\A id \in ExpirerIds :
             /\ Returned(id) => expirers'[id] = expirers[id]
             /\ \A key \in Keys :
                   ExpirerRemoves(id, key) => expirers[id].result = "Timout"
             /\ (\E key \in Keys :
                    /\ Present(key)
                    /\ ~Present(key)'
                    /\ expirers'[id] # expirers[id]) =>
                   (expirers[id].pc = "lock" /\ expirers'[id].pc = "done")]_vars

\* One expirer has returned after its timer fired and one after its channel
\* was closed, while flush_all has been through the store
C36_Witness ==
    /\ \E id \in ExpirerIds :
          Returned(id) /\ expirers[id].result = "Timout"
    /\ \E id \in ExpirerIds :
          Returned(id) /\ expirers[id].result = "Closed"
    /\ reply.op = "flush_all"

====
